---- MODULE Spec2Model ----
(***************************************************************************)
(* Debate arena (backend/arena.py) and debate agents (backend/agents.py).  *)
(*                                                                         *)
(* Text is modelled as a sequence of one-character strings, so that the    *)
(* regular expressions and the string methods of Agent.generate_vote are   *)
(* computed character by character as Python computes them.  Agent names   *)
(* are TLA+ strings; NameChars gives the characters of a name.             *)
(***************************************************************************)
EXTENDS Integers, Sequences, FiniteSets, TLC

(***************************************************************************)
(* Bounds of the model.                                                    *)
(***************************************************************************)
\* number of text fragments a generated vote response is made of
MaxFrags == 3
\* number of agents that can be registered in an arena
MaxAgents == 3
\* largest value of DebateArena.rounds
MaxRounds == 2
\* number of generation calls (ollama.chat) that fail in one behaviour
MaxFailures == 1
\* number of generator objects that run_debate is asked for
MaxGens == 2

(***************************************************************************)
(* Characters.                                                             *)
(***************************************************************************)
UpperChars ==
    <<"A", "B", "C", "D", "E", "F", "G", "H", "I", "J", "K", "L", "M",
      "N", "O", "P", "Q", "R", "S", "T", "U", "V", "W", "X", "Y", "Z">>

LowerChars ==
    <<"a", "b", "c", "d", "e", "f", "g", "h", "i", "j", "k", "l", "m",
      "n", "o", "p", "q", "r", "s", "t", "u", "v", "w", "x", "y", "z">>

UpperSet == {UpperChars[i] : i \in 1..26}

LowerSet == {LowerChars[i] : i \in 1..26}

LowerOf == [c \in UpperSet |-> LowerChars[CHOOSE i \in 1..26 : UpperChars[i] = c]]

UpperOf == [c \in LowerSet |-> UpperChars[CHOOSE i \in 1..26 : LowerChars[i] = c]]

\* str.lower() on one character
ToLower(c) == IF c \in UpperSet THEN LowerOf[c] ELSE c

\* str.upper() on one character
ToUpper(c) == IF c \in LowerSet THEN UpperOf[c] ELSE c

\* whitespace of str.strip(), str.split() and of \s
IsSpace(c) == c \in {" ", "\n", "\t"}

WordSet == UpperSet \cup LowerSet \cup {"_"}

\* a character of \w (the texts of the model hold no digits)
IsWord(c) == c \in WordSet

Lower(s) == [i \in 1..Len(s) |-> ToLower(s[i])]

Upper(s) == [i \in 1..Len(s) |-> ToUpper(s[i])]

\* s[p:] with p a 1-based position
From(s, p) == SubSeq(s, p, Len(s))

\* s.strip()
Strip(s) ==
    IF \A i \in 1..Len(s) : IsSpace(s[i]) THEN <<>>
    ELSE SubSeq(s,
             CHOOSE i \in 1..Len(s) :
                 ~IsSpace(s[i]) /\ \A j \in 1..(i - 1) : IsSpace(s[j]),
             CHOOSE i \in 1..Len(s) :
                 ~IsSpace(s[i]) /\ \A j \in (i + 1)..Len(s) : IsSpace(s[j]))

\* pat occurs in s at position p
MatchAt(s, p, pat) ==
    /\ p >= 1
    /\ p + Len(pat) - 1 <= Len(s)
    /\ \A i \in 1..Len(pat) : s[p + i - 1] = pat[i]

\* s.startswith(pat)
StartsWith(s, pat) == MatchAt(s, 1, pat)

\* s.find(pat) as a 1-based position, 0 when pat does not occur
Find(s, pat) ==
    LET hits == {p \in 1..(Len(s) + 1) : MatchAt(s, p, pat)}
    IN  IF hits = {} THEN 0 ELSE CHOOSE p \in hits : \A q \in hits : p <= q

\* pat in s
Contains(s, pat) == \E p \in 1..(Len(s) + 1) : MatchAt(s, p, pat)

\* ' '.join(s.split()): the ends stripped, every whitespace run replaced by
\* one space
JoinSplit(s) ==
    LET t    == Strip(s)
        kept == SelectSeq([i \in 1..Len(t) |-> i],
                          LAMBDA i : ~IsSpace(t[i]) \/ ~IsSpace(t[i - 1]))
    IN  [j \in 1..Len(kept) |-> IF IsSpace(t[kept[j]]) THEN " " ELSE t[kept[j]]]

\* s.replace('**', '').replace('*', '')
RemoveStars(s) == SelectSeq(s, LAMBDA c : c # "*")

(***************************************************************************)
(* Agent names.                                                            *)
(***************************************************************************)
\* names of AGENT_TEMPLATES used in the model
Names == {"Kant", "Mill", "The Skeptic"}

NameChars ==
    [n \in Names |->
        CASE n = "Kant" -> <<"K", "a", "n", "t">>
          [] n = "Mill" -> <<"M", "i", "l", "l">>
          [] n = "The Skeptic" ->
                <<"T", "h", "e", " ", "S", "k", "e", "p", "t", "i", "c">>]

\* Python's None
None == "None"

(***************************************************************************)
(* Agent.generate_vote: extraction of the vote and the reason.             *)
(***************************************************************************)
VoteMarker == <<"v", "o", "t", "e", ":">>

ReasonMarkerLower == <<"r", "e", "a", "s", "o", "n", ":">>

ReasonMarkerUpper == <<"R", "E", "A", "S", "O", "N", ":">>

VoteFor == <<"v", "o", "t", "e", " ", "f", "o", "r", " ">>

\* reason[:300]
ReasonCap == 300

\* len(reason) < 10
MinReasonLen == 10

FallbackReason ==
    <<"T", "h", "e", "i", "r", " ", "p", "h", "i", "l", "o", "s", "o", "p",
      "h", "i", "c", "a", "l", " ", "a", "p", "p", "r", "o", "a", "c", "h",
      " ", "o", "f", "f", "e", "r", "e", "d", " ", "v", "a", "l", "u", "a",
      "b", "l", "e", " ", "i", "n", "s", "i", "g", "h", "t", "s", " ", "o",
      "n", " ", "t", "h", "i", "s", " ", "t", "o", "p", "i", "c", ".">>

ShortReason ==
    <<"T", "h", "e", "i", "r", " ", "a", "r", "g", "u", "m", "e", "n", "t",
      " ", "p", "r", "e", "s", "e", "n", "t", "e", "d", " ", "a", " ", "c",
      "o", "m", "p", "e", "l", "l", "i", "n", "g", " ", "c", "a", "s", "e",
      " ", "t", "h", "a", "t", " ", "c", "h", "a", "l", "l", "e", "n", "g",
      "e", "d", " ", "m", "y", " ", "p", "e", "r", "s", "p", "e", "c", "t",
      "i", "v", "e", ".">>

ErrorReasonPrefix ==
    <<"E", "r", "r", "o", "r", " ", "g", "e", "n", "e", "r", "a", "t", "i",
      "n", "g", " ", "v", "o", "t", "e", ":", " ">>

\* first position >= p of s that holds no whitespace, Len(s) + 1 if none
SkipSpace(s, p) ==
    LET rest == {i \in p..Len(s) : ~IsSpace(s[i])}
    IN  IF rest = {} THEN Len(s) + 1
        ELSE CHOOSE i \in rest : \A j \in rest : i <= j

\* end (exclusive) of the run of \w characters of s that starts at p
WordEnd(s, p) ==
    LET stop == {i \in p..Len(s) : ~IsWord(s[i])}
    IN  IF stop = {} THEN Len(s) + 1
        ELSE CHOOSE i \in stop : \A j \in stop : i <= j

\* re.search(r'VOTE:\s*(\w+)', content, re.IGNORECASE): group(1), <<>> for
\* no match
VoteMatch(content) ==
    LET low  == Lower(content)
        hits == {p \in 1..Len(content) :
                    /\ MatchAt(low, p, VoteMarker)
                    /\ SkipSpace(content, p + 5) <= Len(content)
                    /\ IsWord(content[SkipSpace(content, p + 5)])}
    IN  IF hits = {} THEN <<>>
        ELSE LET p == CHOOSE h \in hits : \A k \in hits : h <= k
                 q == SkipSpace(content, p + 5)
             IN  SubSeq(content, q, WordEnd(content, q) - 1)

\* the lookahead (?=\n\n|$) at position e (the position of the next
\* character): without re.MULTILINE, $ holds at the end of the string and
\* before a newline that ends it
ReasonStop(s, e) ==
    \/ e = Len(s) + 1
    \/ e = Len(s) /\ s[e] = "\n"
    \/ e < Len(s) /\ s[e] = "\n" /\ s[e + 1] = "\n"

\* re.search(r'REASON:\s*(.+?)(?=\n\n|$)', content, IGNORECASE | DOTALL):
\* group(1), <<>> for no match.  \s* takes all the whitespace after the
\* marker and gives one character back when nothing else is left for (.+?)
ReasonMatch(content) ==
    LET low  == Lower(content)
        hits == {p \in 1..Len(content) :
                    /\ MatchAt(low, p, ReasonMarkerLower)
                    /\ p + 7 <= Len(content)}
    IN  IF hits = {} THEN <<>>
        ELSE LET p  == CHOOSE h \in hits : \A k \in hits : h <= k
                 q  == SkipSpace(content, p + 7)
                 st == IF q <= Len(content) THEN q ELSE Len(content)
                 es == {e \in (st + 1)..(Len(content) + 1) :
                            ReasonStop(content, e)}
                 en == CHOOSE e \in es : \A f \in es : e <= f
             IN  SubSeq(content, st, en - 1)

\* the truth value of a name (None and the empty string are false)
Truthy(vote) == vote # None /\ NameChars[vote] # <<>>

\* the names of a list
NamesOf(names) == {names[i] : i \in 1..Len(names)}

\* the first name of the list that is one of hits, None if there is none
FirstName(names, hits) ==
    LET ok == {i \in 1..Len(names) : names[i] \in hits}
    IN  IF ok = {} THEN None
        ELSE names[CHOOSE i \in ok : \A j \in ok : i <= j]

\* lines 272-278: the name after the VOTE: marker
MarkerVote(content, other_names) ==
    LET vote_text == Lower(VoteMatch(content))
    IN  IF vote_text = <<>> THEN None
        ELSE FirstName(other_names,
                 {n \in NamesOf(other_names) :
                     Lower(NameChars[n]) = vote_text})

\* lines 288-293: the content starts with a name, or holds "vote for <name>"
ProminentVote(content, other_names) ==
    LET low == Lower(content)
    IN  FirstName(other_names,
            {n \in NamesOf(other_names) :
                \/ StartsWith(low, Lower(NameChars[n]))
                \/ Contains(low, VoteFor \o Lower(NameChars[n]))})

\* lines 296-300: a name anywhere in the content
AnywhereVote(content, other_names) ==
    LET low == Lower(content)
    IN  FirstName(other_names,
            {n \in NamesOf(other_names) :
                Contains(low, Lower(NameChars[n]))})

\* a search that goes from the marker to a name anywhere in the content
FoundVoteNoProminent(content, other_names) ==
    LET v1 == MarkerVote(content, other_names)
    IN  IF Truthy(v1) THEN v1 ELSE AnywhereVote(content, other_names)

\* lines 268-300: the name found by the three approaches, None if none
FoundVote(content, other_names) ==
    LET v1 == MarkerVote(content, other_names)
    IN  IF Truthy(v1) THEN v1
        ELSE LET v2 == ProminentVote(content, other_names)
             IN  IF Truthy(v2) THEN v2
                 ELSE AnywhereVote(content, other_names)

\* lines 281-285: the text after the REASON: marker
MarkerReason(content) == JoinSplit(Strip(ReasonMatch(content)))

\* lines 305-311: the text after REASON: or after the name
RemainingReason(content, vote) ==
    LET up == Upper(content)
        remaining ==
            IF Contains(up, ReasonMarkerUpper)
            THEN Strip(From(content, Find(up, ReasonMarkerUpper) + 7))
            ELSE IF Contains(content, NameChars[vote])
            THEN From(content,
                      Find(content, NameChars[vote]) + Len(NameChars[vote]))
            ELSE content
        stripped == Strip(remaining)
    IN  SubSeq(stripped, 1,
               IF Len(stripped) < ReasonCap THEN Len(stripped) ELSE ReasonCap)

\* lines 239: the names a vote can go to
OtherNames(self, other_agents) ==
    SelectSeq(other_agents, LAMBDA n : n # self)

\* a vote without the final fallback
FinalVoteNoDefault(found, other_names) == found

\* lines 313-316: the vote after the final fallback
FinalVote(found, other_names) ==
    IF ~Truthy(found) /\ other_names # <<>> THEN other_names[1] ELSE found

\* a reason taken from the text after the marker whenever a name was found,
\* whether or not the REASON pattern has captured one
RawReasonAfterMarker(content, found, other_names) ==
    IF ~Truthy(found) /\ other_names # <<>> THEN FallbackReason
    ELSE IF Truthy(found) THEN RemainingReason(content, found)
    ELSE MarkerReason(content)

\* lines 302-316: the reason before it is cleaned
RawReason(content, found, other_names) ==
    LET r1 == MarkerReason(content)
        r2 == IF Truthy(found) /\ r1 = <<>>
              THEN RemainingReason(content, found) ELSE r1
    IN  IF ~Truthy(found) /\ other_names # <<>> THEN FallbackReason ELSE r2

\* lines 318-321: the reason as returned
CleanReason(reason) ==
    LET r == Strip(RemoveStars(reason))
    IN  IF r = <<>> \/ Len(r) < MinReasonLen THEN ShortReason ELSE r

\* lines 265-327: the vote record parsed from the response of the model
ParseVote(self, response, other_agents) ==
    LET content     == Strip(response)
        other_names == OtherNames(self, other_agents)
        found       == FoundVote(content, other_names)
    IN  [voter  |-> self,
         vote   |-> FinalVote(found, other_names),
         reason |-> CleanReason(RawReason(content, found, other_names))]

\* an except branch that names nobody
DefaultVoteNobody(self, err, other_agents) ==
    [voter |-> self, vote |-> None, reason |-> ErrorReasonPrefix \o err]

\* lines 329-335: the vote record returned when the generation call raises
DefaultVote(self, err, other_agents) ==
    LET other_names == OtherNames(self, other_agents)
    IN  [voter  |-> self,
         vote   |-> IF other_names # <<>> THEN other_names[1] ELSE None,
         reason |-> ErrorReasonPrefix \o err]

\* Agent.generate_vote; reply is what ollama.chat did: it returned a text
\* (ok) or raised (err)
generate_vote(self, reply, other_agents) ==
    IF reply.ok
    THEN ParseVote(self, reply.text, other_agents)
    ELSE DefaultVote(self, reply.err, other_agents)

(***************************************************************************)
(* State.                                                                  *)
(***************************************************************************)
VARIABLES
    \* DebateArena.agents: the names of the registered agents, in order
    agents,
    \* DebateArena.rounds
    rounds,
    \* DebateArena.history
    history,
    \* DebateArena.is_running
    is_running,
    \* the generator objects returned by run_debate, in creation order
    gens,
    \* the most recent generation call and the history it was given
    last_call,
    \* number of generation calls that can still fail in this behaviour
    budget,
    \* generate_vote called on its own: the voter, the list other_agents,
    \* what ollama.chat did, and the record returned
    v_self, v_agents, v_reply, v_result,
    \* the record returned when generate_vote is called a second time
    v_again

arena_vars == <<agents, rounds, history, is_running, gens, last_call, budget>>

vote_vars == <<v_self, v_agents, v_reply, v_result, v_again>>

vars == <<agents, rounds, history, is_running, gens, last_call, budget,
          v_self, v_agents, v_reply, v_result, v_again>>

(***************************************************************************)
(* What the generation call (ollama.chat) can do.                          *)
(***************************************************************************)
\* str(e) of the exception raised by a failed call
ErrorText == <<"t", "i", "m", "e", "o", "u", "t">>

Failure == [ok |-> FALSE, err |-> ErrorText]

Success(text) == [ok |-> TRUE, text |-> text]

\* pieces of which the responses to the vote prompt are made
Fragments ==
    { <<"\n", "V", "O", "T", "E", ":", " ">>,
      <<"\n", "R", "E", "A", "S", "O", "N", ":", " ">>,
      <<"K", "a", "n", "t">>,
      <<"m", "i", "l", "l">>,
      <<"T", "h", "e", " ", "S", "k", "e", "p", "t", "i", "c">>,
      <<"I", " ", "v", "o", "t", "e", " ", "f", "o", "r", " ">>,
      <<"\n", "\n">>,
      <<" ", "w", "a", "s", " ", " ", "t", "h", "e", " ", "*", "*", "b", "e",
        "s", "t", "*", "*", " ", "o", "n", "e">> }

\* the texts made of at most n fragments
RECURSIVE TextsOf(_)
TextsOf(n) ==
    IF n = 0 THEN {<<>>}
    ELSE LET prev == TextsOf(n - 1)
         IN  prev \cup {t \o f : t \in prev, f \in Fragments}

VoteTexts == TextsOf(MaxFrags)

VoteReplies == {Success(t) : t \in VoteTexts} \cup {Failure}

\* the lists of names without repetition
InjectiveSeqs(S) ==
    UNION {{s \in [1..n -> S] : \A i, j \in 1..n : i # j => s[i] # s[j]} :
              n \in 0..Cardinality(S)}

NoResult == [voter |-> None, vote |-> None, reason |-> <<>>]

NoCall == [gen |-> 0, op |-> "none", agent |-> None, index |-> 0, history |-> <<>>]

(***************************************************************************)
(* The text-producing operations of Agent.                                 *)
(***************************************************************************)
\* the responses to the text prompts
TextReplies == {<<"\"", "o", "k", "\"", " ">>}

\* the response to the vote prompt in a debate
ArenaVoteText ==
    <<"I", " ", "v", "o", "t", "e", " ", "f", "o", "r", " ", "K", "a", "n",
      "t">>

\* what a generation call can do when `left` calls can still fail
TextOutcomes(left) ==
    {Success(t) : t \in TextReplies} \cup (IF left > 0 THEN {Failure} ELSE {})

VoteOutcomes(left) ==
    {Success(ArenaVoteText)} \cup (IF left > 0 THEN {Failure} ELSE {})

Failed(reply) == IF reply.ok THEN 0 ELSE 1

IsQuote(c) == c \in {"\"", "'"}

\* result.strip('"\'')
StripQuotes(s) ==
    LET keep == {i \in 1..Len(s) : ~IsQuote(s[i])}
    IN  IF keep = {} THEN <<>>
        ELSE SubSeq(s, CHOOSE i \in keep : \A j \in keep : i <= j,
                       CHOOSE i \in keep : \A j \in keep : j <= i)

\* strip_emojis: the texts of the model hold no character of the pattern
strip_emojis(s) == Strip(s)

\* lines 86-91: the text returned when the generation call succeeds
Sanitize(text) == strip_emojis(StripQuotes(Strip(text)))

ErrResponse ==
    <<"[", "E", "r", "r", "o", "r", " ", "g", "e", "n", "e", "r", "a", "t",
      "i", "n", "g", " ", "r", "e", "s", "p", "o", "n", "s", "e", ":", " ">>

ErrQuestion ==
    <<"[", "E", "r", "r", "o", "r", " ", "g", "e", "n", "e", "r", "a", "t",
      "i", "n", "g", " ", "q", "u", "e", "s", "t", "i", "o", "n", ":", " ">>

ErrClosing ==
    <<"[", "E", "r", "r", "o", "r", " ", "g", "e", "n", "e", "r", "a", "t",
      "i", "n", "g", " ", "c", "l", "o", "s", "i", "n", "g", ":", " ">>

ErrSynthesis ==
    <<"[", "E", "r", "r", "o", "r", " ", "g", "e", "n", "e", "r", "a", "t",
      "i", "n", "g", " ", "s", "y", "n", "t", "h", "e", "s", "i", "s", ":",
      " ">>

\* an except branch that returns the bare reason of the failure
TextResultBare(reply, errPrefix) ==
    IF reply.ok THEN Sanitize(reply.text) ELSE reply.err

\* the try/except around ollama.chat of a text-producing operation
TextResult(reply, errPrefix) ==
    IF reply.ok THEN Sanitize(reply.text)
    ELSE errPrefix \o reply.err \o <<"]">>

generate_response(reply) == TextResult(reply, ErrResponse)

generate_cross_examination(reply) == TextResult(reply, ErrQuestion)

\* an except branch that returns no text
generate_cross_exam_response_empty(reply) ==
    IF reply.ok THEN Sanitize(reply.text) ELSE <<>>

generate_cross_exam_response(reply) == TextResult(reply, ErrResponse)

generate_closing_statement(reply) == TextResult(reply, ErrClosing)

\* DebateArena._generate_synthesis: the response is stripped only
\* a synthesis whose failure is returned without the marker
_generate_synthesis_bare(reply) ==
    IF reply.ok THEN Strip(reply.text) ELSE reply.err

_generate_synthesis(reply) ==
    IF reply.ok THEN Strip(reply.text)
    ELSE ErrSynthesis \o reply.err \o <<"]">>

\* the keys of a history entry that name a participant
NameKeys == {"agent", "questioner", "responder", "target"}

\* Agent._extract_participants before its return: the set of the names
\* under those keys in the entries of the history
_extract_participants(debate_history) ==
    {debate_history[p[1]][p[2]] :
        p \in {q \in (1..Len(debate_history)) \X NameKeys :
                  q[2] \in DOMAIN debate_history[q[1]]}}

\* line 128: list(participants), the names of the set in any order
Listings(participants) ==
    {s \in InjectiveSeqs(participants) : Len(s) = Cardinality(participants)}

\* a list of participants from which the speaker is not removed
other_participants_all(self, participants) == participants

\* line 72: [p for p in participants if p != self.name]
other_participants(self, participants) ==
    SelectSeq(participants, LAMBDA p : p # self)

\* Agent.role of the template agents
Role ==
    [n \in Names |->
        CASE n = "Kant" -> "Philosopher"
          [] n = "Mill" -> "Philosopher"
          [] n = "The Skeptic" -> "Skeptic"]

(***************************************************************************)
(* DebateArena.                                                            *)
(***************************************************************************)
\* the number of entries of h that are of one of the types
CountType(h, types) == Cardinality({i \in 1..Len(h) : h[i].type \in types})

\* a generator object as run_debate() returns it: nothing has run yet
NewGen ==
    [pc |-> "created", round_num |-> 0, i |-> 0, k |-> 0,
     cross_exam_entries |-> <<>>, agent_names |-> <<>>, votes |-> <<>>,
     out |-> <<>>]

\* positions inside _run_cross_examination and _run_voting_round, which
\* hold no yield: nothing else runs while a generator is at one of them
InnerPcs == {"asked", "answered", "voted"}

\* a generator that has begun and has not returned
Live(g) == gens[g].pc \notin {"created", "done"}

\* no other generator is in the middle of a call
MayStep(g) == \A h \in 1..Len(gens) : h # g => gens[h].pc \notin InnerPcs

Quiet == \A h \in 1..Len(gens) : gens[h].pc \notin InnerPcs

\* the generator g after it yields ev at position pc
Yield(gen, pc, ev) == [gen EXCEPT !.pc = pc, !.out = Append(@, ev)]

\* a generation call that is given the history as it was when the phase began
CallWithPhaseSnapshot(g, op, agent, index) ==
    [gen |-> g, op |-> op, agent |-> agent, index |-> index,
     history |-> SubSeq(history, 1, Len(history) - index)]

\* a generation call: self.history itself is the argument
Call(g, op, agent, index) ==
    [gen |-> g, op |-> op, agent |-> agent, index |-> index,
     history |-> history]

\* what the list given to the last call holds now.  The argument
\* debate_history is the list object self.history, not a copy of it, and
\* within one run self.history is never assigned again (only lines 57 and
\* 338 assign it): the participant's list is the arena's list.
debate_history == IF last_call.op = "none" THEN <<>> ELSE history

phase_name(round_num) ==
    IF round_num = 1 THEN "Opening Statements" ELSE "Rebuttal Round"

\* DebateArena.add_agent
AddAgent(name) ==
    /\ Quiet
    /\ Len(agents) < MaxAgents
    /\ agents' = Append(agents, name)
    /\ UNCHANGED <<rounds, history, is_running, gens, last_call, budget>>
    /\ UNCHANGED vote_vars

\* arena.run_debate(): the generator object is created, no code of it runs
RunDebate ==
    /\ Quiet
    /\ Len(gens) < MaxGens
    /\ gens' = Append(gens, NewGen)
    /\ UNCHANGED <<agents, rounds, history, is_running, last_call, budget>>
    /\ UNCHANGED vote_vars

\* a guard that lets a debate of one agent begin
TooFewNone == Len(agents) < 1

\* line 49: len(self.agents) < 2
TooFew == Len(agents) < 2

\* lines 49-54: fewer than two agents
TooFewAgents(g) ==
    /\ MayStep(g)
    /\ gens[g].pc = "created"
    /\ TooFew
    /\ gens' = [gens EXCEPT ![g] = Yield(@, "y_error",
                   [type |-> "error",
                    message |-> "Need at least 2 agents for a debate"])]
    /\ UNCHANGED <<agents, rounds, history, is_running, last_call, budget, v_self, v_agents, v_reply, v_result, v_again>>

\* line 54: return after the error event
ReturnAfterError(g) ==
    /\ MayStep(g)
    /\ gens[g].pc = "y_error"
    /\ gens' = [gens EXCEPT ![g].pc = "done"]
    /\ UNCHANGED <<agents, rounds, history, is_running, last_call, budget, v_self, v_agents, v_reply, v_result, v_again>>

\* a run that begins without clearing the transcript
StartKeepsHistory(g) ==
    /\ MayStep(g)
    /\ gens[g].pc = "created"
    /\ ~TooFew
    /\ is_running' = TRUE
    /\ gens' = [gens EXCEPT ![g] = Yield(@, "y_start",
                   [type |-> "start", agents |-> agents, rounds |-> rounds])]
    /\ UNCHANGED <<agents, rounds, history, last_call, budget, v_self, v_agents, v_reply, v_result, v_again>>

\* lines 56-65
Start(g) ==
    /\ MayStep(g)
    /\ gens[g].pc = "created"
    /\ ~TooFew
    /\ is_running' = TRUE
    /\ history' = <<>>
    /\ gens' = [gens EXCEPT ![g] = Yield(@, "y_start",
                   [type |-> "start", agents |-> agents, rounds |-> rounds])]
    /\ UNCHANGED <<agents, rounds, last_call, budget, v_self, v_agents, v_reply, v_result, v_again>>

\* the for loop over self.agents at line 76 has gone through the list
RoundOver(g) == gens[g].pc = "y_argument" /\ gens[g].i >= Len(agents)

\* a range that runs one round more
RoundsLeftAndOne(g) == gens[g].round_num + 1 <= rounds + 1

\* line 68: range(1, self.rounds + 1) holds a number after round_num
RoundsLeft(g) == gens[g].round_num + 1 <= rounds

\* lines 68-74: the next round begins
RoundStart(g) ==
    /\ MayStep(g)
    /\ \/ gens[g].pc = "y_start"
       \/ RoundOver(g)
    /\ RoundsLeft(g)
    /\ gens' = [gens EXCEPT ![g] =
                   Yield([@ EXCEPT !.round_num = @ + 1, !.i = 0],
                         "y_round_start",
                         [type |-> "round_start",
                          round |-> gens[g].round_num + 1,
                          phase |-> phase_name(gens[g].round_num + 1)])]
    /\ UNCHANGED <<agents, rounds, history, is_running, last_call, budget, v_self, v_agents, v_reply, v_result, v_again>>

\* a turn that is tried again when its generation call has failed: the call
\* is made, no entry is appended and the loop stays at the agent
ArgumentRetried(g, reply) ==
    /\ MayStep(g)
    /\ \/ gens[g].pc = "y_round_start"
       \/ gens[g].pc = "y_argument"
    /\ gens[g].i < Len(agents)
    /\ LET agent == agents[gens[g].i + 1]
           entry == [type    |-> "argument",
                     round   |-> gens[g].round_num,
                     phase   |-> phase_name(gens[g].round_num),
                     agent   |-> agent,
                     role    |-> Role[agent],
                     message |-> generate_response(reply)]
       IN  /\ last_call' = Call(g, "respond", agent, gens[g].i)
           /\ history' = IF reply.ok THEN Append(history, entry) ELSE history
           /\ gens' = IF reply.ok
                      THEN [gens EXCEPT ![g] =
                               Yield([@ EXCEPT !.i = @ + 1], "y_argument", entry)]
                      ELSE gens
    /\ budget' = budget - Failed(reply)
    /\ UNCHANGED <<agents, rounds, is_running, v_self, v_agents, v_reply, v_result, v_again>>

\* lines 76-93: the next agent of the round speaks
Argument(g, reply) ==
    /\ MayStep(g)
    /\ \/ gens[g].pc = "y_round_start"
       \/ gens[g].pc = "y_argument"
    /\ gens[g].i < Len(agents)
    /\ LET agent == agents[gens[g].i + 1]
           entry == [type    |-> "argument",
                     round   |-> gens[g].round_num,
                     phase   |-> phase_name(gens[g].round_num),
                     agent   |-> agent,
                     role    |-> Role[agent],
                     message |-> generate_response(reply)]
       IN  /\ last_call' = Call(g, "respond", agent, gens[g].i)
           /\ history' = Append(history, entry)
           /\ gens' = [gens EXCEPT ![g] =
                          Yield([@ EXCEPT !.i = @ + 1], "y_argument", entry)]
    /\ budget' = budget - Failed(reply)
    /\ UNCHANGED <<agents, rounds, is_running, v_self, v_agents, v_reply, v_result, v_again>>

\* lines 96-99
CrossExamStart(g) ==
    /\ MayStep(g)
    /\ \/ gens[g].pc = "y_start"
       \/ RoundOver(g)
    /\ ~RoundsLeft(g)
    /\ gens' = [gens EXCEPT ![g] =
                   Yield(@, "y_cross_exam_start",
                         [type |-> "cross_exam_start"])]
    /\ UNCHANGED <<agents, rounds, history, is_running, last_call, budget, v_self, v_agents, v_reply, v_result, v_again>>

\* a rotation that stays where it is: every agent is its own target
TargetIndexSelf(i) == i + 1

\* line 172: self.agents[(i + 1) % len(self.agents)], as a 1-based position
TargetIndex(i) == ((i + 1) % Len(agents)) + 1

\* lines 170-188: the next questioner asks
Ask(g, reply) ==
    /\ MayStep(g)
    /\ \/ gens[g].pc = "y_cross_exam_start"
       \/ gens[g].pc = "answered"
    /\ LET i == IF gens[g].pc = "answered" THEN gens[g].i ELSE 0
       IN  /\ i < Len(agents)
           /\ LET questioner == agents[i + 1]
                  target     == agents[TargetIndex(i)]
                  question_entry ==
                      [type       |-> "cross_exam_question",
                       questioner |-> questioner,
                       target     |-> target,
                       message    |-> generate_cross_examination(reply)]
              IN  /\ last_call' = Call(g, "ask", questioner, i)
                  /\ gens' = [gens EXCEPT ![g] =
                         [@ EXCEPT !.pc = "asked", !.i = i,
                                   !.cross_exam_entries =
                                       IF gens[g].pc = "answered"
                                       THEN Append(@, question_entry)
                                       ELSE <<question_entry>>]]
    /\ budget' = budget - Failed(reply)
    /\ UNCHANGED <<agents, rounds, history, is_running, v_self, v_agents, v_reply, v_result, v_again>>

\* lines 190-204: the target answers
Answer(g, reply) ==
    /\ MayStep(g)
    /\ gens[g].pc = "asked"
    /\ LET i          == gens[g].i
           questioner == agents[i + 1]
           target     == agents[TargetIndex(i)]
           response_entry ==
               [type       |-> "cross_exam_response",
                responder  |-> target,
                questioner |-> questioner,
                message    |-> generate_cross_exam_response(reply)]
       IN  /\ last_call' = Call(g, "answer", target, i)
           /\ gens' = [gens EXCEPT ![g] =
                  [@ EXCEPT !.pc = "answered", !.i = i + 1,
                            !.cross_exam_entries = Append(@, response_entry)]]
    /\ budget' = budget - Failed(reply)
    /\ UNCHANGED <<agents, rounds, history, is_running, v_self, v_agents, v_reply, v_result, v_again>>

\* lines 101-104: _run_cross_examination has returned; the next of its
\* entries is appended to the history and yielded
CrossExamEntry(g) ==
    /\ MayStep(g)
    /\ \/ gens[g].pc = "answered" /\ gens[g].i >= Len(agents)
       \/ gens[g].pc = "y_cross_entry"
    /\ LET k == IF gens[g].pc = "answered" THEN 0 ELSE gens[g].k
       IN  /\ k < Len(gens[g].cross_exam_entries)
           /\ history' = Append(history, gens[g].cross_exam_entries[k + 1])
           /\ gens' = [gens EXCEPT ![g] =
                          Yield([@ EXCEPT !.k = k + 1], "y_cross_entry",
                                gens[g].cross_exam_entries[k + 1])]
    /\ UNCHANGED <<agents, rounds, is_running, last_call, budget, v_self, v_agents, v_reply, v_result, v_again>>

\* lines 107-110
ClosingStart(g) ==
    /\ MayStep(g)
    /\ gens[g].pc = "y_cross_entry"
    /\ gens[g].k >= Len(gens[g].cross_exam_entries)
    /\ gens' = [gens EXCEPT ![g] =
                   Yield([@ EXCEPT !.i = 0], "y_closing_start",
                         [type |-> "closing_start"])]
    /\ UNCHANGED <<agents, rounds, history, is_running, last_call, budget, v_self, v_agents, v_reply, v_result, v_again>>

\* closing statements made from the last registered agent to the first
ClosingReversed(g, reply) ==
    /\ MayStep(g)
    /\ \/ gens[g].pc = "y_closing_start"
       \/ gens[g].pc = "y_closing"
    /\ gens[g].i < Len(agents)
    /\ LET agent == agents[Len(agents) - gens[g].i]
           entry == [type    |-> "closing",
                     agent   |-> agent,
                     role    |-> Role[agent],
                     message |-> generate_closing_statement(reply)]
       IN  /\ last_call' = Call(g, "close", agent, gens[g].i)
           /\ history' = Append(history, entry)
           /\ gens' = [gens EXCEPT ![g] =
                          Yield([@ EXCEPT !.i = @ + 1], "y_closing", entry)]
    /\ budget' = budget - Failed(reply)
    /\ UNCHANGED <<agents, rounds, is_running, v_self, v_agents, v_reply, v_result, v_again>>

\* lines 112-126: the next agent closes
Closing(g, reply) ==
    /\ MayStep(g)
    /\ \/ gens[g].pc = "y_closing_start"
       \/ gens[g].pc = "y_closing"
    /\ gens[g].i < Len(agents)
    /\ LET agent == agents[gens[g].i + 1]
           entry == [type    |-> "closing",
                     agent   |-> agent,
                     role    |-> Role[agent],
                     message |-> generate_closing_statement(reply)]
       IN  /\ last_call' = Call(g, "close", agent, gens[g].i)
           /\ history' = Append(history, entry)
           /\ gens' = [gens EXCEPT ![g] =
                          Yield([@ EXCEPT !.i = @ + 1], "y_closing", entry)]
    /\ budget' = budget - Failed(reply)
    /\ UNCHANGED <<agents, rounds, is_running, v_self, v_agents, v_reply, v_result, v_again>>

\* lines 129-132
VotingStart(g) ==
    /\ MayStep(g)
    /\ gens[g].pc = "y_closing"
    /\ gens[g].i >= Len(agents)
    /\ gens' = [gens EXCEPT ![g] =
                   Yield(@, "y_voting_start", [type |-> "voting_start"])]
    /\ UNCHANGED <<agents, rounds, history, is_running, last_call, budget, v_self, v_agents, v_reply, v_result, v_again>>

\* a voting round that appends each vote to the history
VotedHistoryWithVote(vote_entry) == Append(history, vote_entry)

\* a voting round that makes the votes the whole history
VotedHistoryOnlyVotes(vote_entry) == <<vote_entry>>

\* lines 219-226: the vote goes to the list of votes, and self.history is
\* left as it is
VotedHistory(vote_entry) == history

\* lines 208-226: the next agent votes
Vote(g, reply) ==
    /\ MayStep(g)
    /\ \/ gens[g].pc = "y_voting_start"
       \/ gens[g].pc = "voted"
    /\ LET first == gens[g].pc = "y_voting_start"
           i     == IF first THEN 0 ELSE gens[g].i
           agent_names == IF first THEN agents ELSE gens[g].agent_names
       IN  /\ i < Len(agents)
           /\ LET agent       == agents[i + 1]
                  vote_result == generate_vote(agent, reply, agent_names)
                  vote_entry  == [type     |-> "vote",
                                  voter    |-> vote_result.voter,
                                  vote_for |-> vote_result.vote,
                                  reason   |-> vote_result.reason]
              IN  /\ last_call' = Call(g, "vote", agent, i)
                  /\ history' = VotedHistory(vote_entry)
                  /\ gens' = [gens EXCEPT ![g] =
                         [@ EXCEPT !.pc = "voted", !.i = i + 1,
                                   !.agent_names = agent_names,
                                   !.votes = IF first THEN <<vote_entry>>
                                             ELSE Append(@, vote_entry)]]
    /\ budget' = budget - Failed(reply)
    /\ UNCHANGED <<agents, rounds, is_running, v_self, v_agents, v_reply, v_result, v_again>>

\* lines 134-136: _run_voting_round has returned; the next vote is yielded
VoteEntry(g) ==
    /\ MayStep(g)
    /\ \/ gens[g].pc = "voted" /\ gens[g].i >= Len(agents)
       \/ gens[g].pc = "y_vote"
    /\ LET k == IF gens[g].pc = "voted" THEN 0 ELSE gens[g].k
       IN  /\ k < Len(gens[g].votes)
           /\ gens' = [gens EXCEPT ![g] =
                          Yield([@ EXCEPT !.k = k + 1], "y_vote",
                                gens[g].votes[k + 1])]
    /\ UNCHANGED <<agents, rounds, history, is_running, last_call, budget, v_self, v_agents, v_reply, v_result, v_again>>

\* a tally that sets the count of a name instead of adding to it
_tally_votes_once(votes) ==
    [n \in {votes[i].vote_for : i \in {j \in 1..Len(votes) :
                                        Truthy(votes[j].vote_for)}} |-> 1]

\* DebateArena._tally_votes: the names voted for and their counts
_tally_votes(votes) ==
    LET counted == {i \in 1..Len(votes) : Truthy(votes[i].vote_for)}
    IN  [n \in {votes[i].vote_for : i \in counted} |->
            Cardinality({i \in counted : votes[i].vote_for = n})]

\* lines 248-249 of _format_voting_results: the names with the most votes
Winners(tally) ==
    {n \in DOMAIN tally : \A m \in DOMAIN tally : tally[m] <= tally[n]}

\* lines 139-144
VotingResults(g) ==
    /\ MayStep(g)
    /\ gens[g].pc = "y_vote"
    /\ gens[g].k >= Len(gens[g].votes)
    /\ LET vote_tally == _tally_votes(gens[g].votes)
       IN  gens' = [gens EXCEPT ![g] =
                       Yield(@, "y_voting_results",
                             [type    |-> "voting_results",
                              tally   |-> vote_tally,
                              winners |-> Winners(vote_tally)])]
    /\ UNCHANGED <<agents, rounds, history, is_running, last_call, budget, v_self, v_agents, v_reply, v_result, v_again>>

\* lines 147-154
Synthesis(g, reply) ==
    /\ MayStep(g)
    /\ gens[g].pc = "y_voting_results"
    /\ last_call' = Call(g, "synthesis", "Moderator", 0)
    /\ gens' = [gens EXCEPT ![g] =
                   Yield(@, "y_synthesis",
                         [type    |-> "synthesis",
                          round   |-> "final",
                          agent   |-> "Moderator",
                          role    |-> "Synthesis",
                          message |-> _generate_synthesis(reply)])]
    /\ budget' = budget - Failed(reply)
    /\ UNCHANGED <<agents, rounds, history, is_running, v_self, v_agents, v_reply, v_result, v_again>>

\* a total that counts the entries of the rounds only
TotalOfRounds == CountType(history, {"argument"})

\* line 159: len(self.history)
Total == Len(history)

\* lines 157-160
End(g) ==
    /\ MayStep(g)
    /\ gens[g].pc = "y_synthesis"
    /\ gens' = [gens EXCEPT ![g] =
                   Yield(@, "y_end",
                         [type |-> "end",
                          total_arguments |-> Total])]
    /\ UNCHANGED <<agents, rounds, history, is_running, last_call, budget, v_self, v_agents, v_reply, v_result, v_again>>

\* a generator that yields one more event after the end event
FinishWithEvent(g) ==
    /\ MayStep(g)
    /\ gens[g].pc = "y_end"
    /\ is_running' = FALSE
    /\ gens' = [gens EXCEPT ![g] = Yield(@, "done", [type |-> "done"])]
    /\ UNCHANGED <<agents, rounds, history, last_call, budget, v_self, v_agents, v_reply, v_result, v_again>>

\* line 162: the consumer pulls once more after the end event
Finish(g) ==
    /\ MayStep(g)
    /\ gens[g].pc = "y_end"
    /\ is_running' = FALSE
    /\ gens' = [gens EXCEPT ![g].pc = "done"]
    /\ UNCHANGED <<agents, rounds, history, last_call, budget, v_self, v_agents, v_reply, v_result, v_again>>

\* a close that runs a clean-up: the transcript is cleared and the flag reset
AbandonWithCleanup(g) ==
    /\ MayStep(g)
    /\ gens[g].pc \notin InnerPcs \cup {"created", "done", "closed"}
    /\ gens' = [gens EXCEPT ![g].pc = "closed"]
    /\ history' = <<>>
    /\ is_running' = FALSE
    /\ UNCHANGED <<agents, rounds, last_call, budget, v_self, v_agents, v_reply, v_result, v_again>>

\* the consumer stops pulling after an event and drops the generator: it
\* is closed where it is suspended.  No yield of run_debate is inside a try
\* with a finally or an except, so closing it runs no code of the arena.
Abandon(g) ==
    /\ MayStep(g)
    /\ gens[g].pc \notin InnerPcs \cup {"created", "done", "closed"}
    /\ gens' = [gens EXCEPT ![g].pc = "closed"]
    /\ UNCHANGED <<agents, rounds, history, is_running, last_call, budget, v_self, v_agents, v_reply, v_result, v_again>>

ArenaInit ==
    /\ agents = <<>>
    /\ rounds \in 1..MaxRounds
    /\ history = <<>>
    /\ is_running = FALSE
    /\ gens = <<>>
    /\ last_call = NoCall
    /\ budget = 0

VoteIdle ==
    /\ v_self = None
    /\ v_agents = <<>>
    /\ v_reply = Failure
    /\ v_result = NoResult
    /\ v_again = NoResult

Init == ArenaInit /\ VoteIdle

\* A debate is configured and then run by one consumer: agents are added
\* before run_debate is called, and run_debate is called once.  Every
\* generation call succeeds (FaultSpec is the debate with failing calls).
Configure(name) == gens = <<>> /\ AddAgent(name)

RunOnce == gens = <<>> /\ RunDebate

\* The generators and what a generation call can do now.
Gens == 1..Len(gens)

Texts == TextOutcomes(budget)

VoteTextsNow == VoteOutcomes(budget)

\* next(gen): a generator runs on, up to its next yield or, inside
\* _run_cross_examination and _run_voting_round, its next generation call
Next ==
    \/ \E name \in Names : Configure(name)
    \/ RunOnce
    \/ \E g \in Gens : TooFewAgents(g)
    \/ \E g \in Gens : ReturnAfterError(g)
    \/ \E g \in Gens : Start(g)
    \/ \E g \in Gens : RoundStart(g)
    \/ \E g \in Gens, reply \in Texts : Argument(g, reply)
    \/ \E g \in Gens : CrossExamStart(g)
    \/ \E g \in Gens, reply \in Texts : Ask(g, reply)
    \/ \E g \in Gens, reply \in Texts : Answer(g, reply)
    \/ \E g \in Gens : CrossExamEntry(g)
    \/ \E g \in Gens : ClosingStart(g)
    \/ \E g \in Gens, reply \in Texts : Closing(g, reply)
    \/ \E g \in Gens : VotingStart(g)
    \/ \E g \in Gens, reply \in VoteTextsNow : Vote(g, reply)
    \/ \E g \in Gens : VoteEntry(g)
    \/ \E g \in Gens : VotingResults(g)
    \/ \E g \in Gens, reply \in Texts : Synthesis(g, reply)
    \/ \E g \in Gens : End(g)
    \/ \E g \in Gens : Finish(g)

Spec == Init /\ [][Next]_vars

(***************************************************************************)
(* A debate in which generation calls fail: the agents, with names of      *)
(* their own, are registered when the behaviour begins, and at most        *)
(* MaxFailures of the generation calls of the run raise.                   *)
(***************************************************************************)
FaultInit ==
    /\ agents \in {a \in InjectiveSeqs(Names) : 1 <= Len(a) /\ Len(a) <= MaxAgents}
    /\ rounds \in 1..MaxRounds
    /\ history = <<>>
    /\ is_running = FALSE
    /\ gens = <<>>
    /\ last_call = NoCall
    /\ budget = MaxFailures
    /\ VoteIdle

FaultNext ==
    \/ RunOnce
    \/ \E g \in Gens : TooFewAgents(g)
    \/ \E g \in Gens : ReturnAfterError(g)
    \/ \E g \in Gens : Start(g)
    \/ \E g \in Gens : RoundStart(g)
    \/ \E g \in Gens, reply \in Texts : Argument(g, reply)
    \/ \E g \in Gens : CrossExamStart(g)
    \/ \E g \in Gens, reply \in Texts : Ask(g, reply)
    \/ \E g \in Gens, reply \in Texts : Answer(g, reply)
    \/ \E g \in Gens : CrossExamEntry(g)
    \/ \E g \in Gens : ClosingStart(g)
    \/ \E g \in Gens, reply \in Texts : Closing(g, reply)
    \/ \E g \in Gens : VotingStart(g)
    \/ \E g \in Gens, reply \in VoteTextsNow : Vote(g, reply)
    \/ \E g \in Gens : VoteEntry(g)
    \/ \E g \in Gens : VotingResults(g)
    \/ \E g \in Gens, reply \in Texts : Synthesis(g, reply)
    \/ \E g \in Gens : End(g)
    \/ \E g \in Gens : Finish(g)

FaultSpec == FaultInit /\ [][FaultNext]_vars

(***************************************************************************)
(* An arena used by several consumers: run_debate is called again while a  *)
(* generator is suspended at a yield.  The arena holds two agents and runs *)
(* one round, every generation call succeeds, and the consumers are served *)
(* one at a time: once a later generator has begun, the earlier ones stay  *)
(* suspended until it has returned.                                        *)
(***************************************************************************)
\* no generator created after g is between its first step and its return
Turn(g) == \A h \in 1..Len(gens) : h > g => ~Live(h)

ReentrantInit ==
    /\ agents = <<"Kant", "Mill">>
    /\ rounds = 1
    /\ history = <<>>
    /\ is_running = FALSE
    /\ gens = <<>>
    /\ last_call = NoCall
    /\ budget = 0
    /\ VoteIdle

ReentrantNext ==
    \/ RunDebate
    \/ \E g \in Gens : Turn(g) /\ Start(g)
    \/ \E g \in Gens : Turn(g) /\ RoundStart(g)
    \/ \E g \in Gens, reply \in Texts : Turn(g) /\ Argument(g, reply)
    \/ \E g \in Gens : Turn(g) /\ CrossExamStart(g)
    \/ \E g \in Gens, reply \in Texts : Turn(g) /\ Ask(g, reply)
    \/ \E g \in Gens, reply \in Texts : Turn(g) /\ Answer(g, reply)
    \/ \E g \in Gens : Turn(g) /\ CrossExamEntry(g)
    \/ \E g \in Gens : Turn(g) /\ ClosingStart(g)
    \/ \E g \in Gens, reply \in Texts : Turn(g) /\ Closing(g, reply)
    \/ \E g \in Gens : Turn(g) /\ VotingStart(g)
    \/ \E g \in Gens, reply \in VoteTextsNow : Turn(g) /\ Vote(g, reply)
    \/ \E g \in Gens : Turn(g) /\ VoteEntry(g)
    \/ \E g \in Gens : Turn(g) /\ VotingResults(g)
    \/ \E g \in Gens, reply \in Texts : Turn(g) /\ Synthesis(g, reply)
    \/ \E g \in Gens : Turn(g) /\ End(g)
    \/ \E g \in Gens : Turn(g) /\ Finish(g)

ReentrantSpec == ReentrantInit /\ [][ReentrantNext]_vars

(***************************************************************************)
(* A debate whose consumer may stop pulling: after any event it may drop   *)
(* the generator instead of pulling the next event.  Every generation call *)
(* succeeds.                                                               *)
(***************************************************************************)
CancelNext ==
    \/ \E name \in Names : Configure(name)
    \/ RunOnce
    \/ \E g \in Gens : TooFewAgents(g)
    \/ \E g \in Gens : ReturnAfterError(g)
    \/ \E g \in Gens : Start(g)
    \/ \E g \in Gens : RoundStart(g)
    \/ \E g \in Gens, reply \in Texts : Argument(g, reply)
    \/ \E g \in Gens : CrossExamStart(g)
    \/ \E g \in Gens, reply \in Texts : Ask(g, reply)
    \/ \E g \in Gens, reply \in Texts : Answer(g, reply)
    \/ \E g \in Gens : CrossExamEntry(g)
    \/ \E g \in Gens : ClosingStart(g)
    \/ \E g \in Gens, reply \in Texts : Closing(g, reply)
    \/ \E g \in Gens : VotingStart(g)
    \/ \E g \in Gens, reply \in VoteTextsNow : Vote(g, reply)
    \/ \E g \in Gens : VoteEntry(g)
    \/ \E g \in Gens : VotingResults(g)
    \/ \E g \in Gens, reply \in Texts : Synthesis(g, reply)
    \/ \E g \in Gens : End(g)
    \/ \E g \in Gens : Finish(g)
    \/ \E g \in Gens : Abandon(g)

CancelSpec == Init /\ [][CancelNext]_vars

(***************************************************************************)
(* A debate whose arena is given agents while it runs: two agents are      *)
(* registered when run_debate is called, and add_agent may be called       *)
(* between any two pulls.  Every generation call succeeds.                 *)
(***************************************************************************)
LateInit ==
    /\ agents = <<"Kant", "Mill">>
    /\ rounds \in 1..MaxRounds
    /\ history = <<>>
    /\ is_running = FALSE
    /\ gens = <<>>
    /\ last_call = NoCall
    /\ budget = 0
    /\ VoteIdle

LateNext ==
    \/ \E name \in Names : AddAgent(name)
    \/ RunOnce
    \/ \E g \in Gens : Start(g)
    \/ \E g \in Gens : RoundStart(g)
    \/ \E g \in Gens, reply \in Texts : Argument(g, reply)
    \/ \E g \in Gens : CrossExamStart(g)
    \/ \E g \in Gens, reply \in Texts : Ask(g, reply)
    \/ \E g \in Gens, reply \in Texts : Answer(g, reply)
    \/ \E g \in Gens : CrossExamEntry(g)
    \/ \E g \in Gens : ClosingStart(g)
    \/ \E g \in Gens, reply \in Texts : Closing(g, reply)
    \/ \E g \in Gens : VotingStart(g)
    \/ \E g \in Gens, reply \in VoteTextsNow : Vote(g, reply)
    \/ \E g \in Gens : VoteEntry(g)
    \/ \E g \in Gens : VotingResults(g)
    \/ \E g \in Gens, reply \in Texts : Synthesis(g, reply)
    \/ \E g \in Gens : End(g)
    \/ \E g \in Gens : Finish(g)

LateSpec == LateInit /\ [][LateNext]_vars

(***************************************************************************)
(* Debates run one after the other on one arena: run_debate is called      *)
(* again when every earlier run has yielded its end event.  The agents,    *)
(* with names of their own, are registered when the behaviour begins and   *)
(* every generation call succeeds.                                         *)
(***************************************************************************)
\* every generator created so far has yielded its end event
Completed == \A g \in 1..Len(gens) : gens[g].pc \in {"y_end", "done"}

RerunInit ==
    /\ agents \in {a \in InjectiveSeqs(Names) : 2 <= Len(a) /\ Len(a) <= MaxAgents}
    /\ rounds \in 1..MaxRounds
    /\ history = <<>>
    /\ is_running = FALSE
    /\ gens = <<>>
    /\ last_call = NoCall
    /\ budget = 0
    /\ VoteIdle

RunAgain == Completed /\ RunDebate

RerunNext ==
    \/ RunAgain
    \/ \E g \in Gens : Start(g)
    \/ \E g \in Gens : RoundStart(g)
    \/ \E g \in Gens, reply \in Texts : Argument(g, reply)
    \/ \E g \in Gens : CrossExamStart(g)
    \/ \E g \in Gens, reply \in Texts : Ask(g, reply)
    \/ \E g \in Gens, reply \in Texts : Answer(g, reply)
    \/ \E g \in Gens : CrossExamEntry(g)
    \/ \E g \in Gens : ClosingStart(g)
    \/ \E g \in Gens, reply \in Texts : Closing(g, reply)
    \/ \E g \in Gens : VotingStart(g)
    \/ \E g \in Gens, reply \in VoteTextsNow : Vote(g, reply)
    \/ \E g \in Gens : VoteEntry(g)
    \/ \E g \in Gens : VotingResults(g)
    \/ \E g \in Gens, reply \in Texts : Synthesis(g, reply)
    \/ \E g \in Gens : End(g)
    \/ \E g \in Gens : Finish(g)

RerunSpec == RerunInit /\ [][RerunNext]_vars

(***************************************************************************)
(* generate_vote on its own.                                               *)
(***************************************************************************)
ArenaIdle ==
    /\ agents = <<>>
    /\ rounds = 1
    /\ history = <<>>
    /\ is_running = FALSE
    /\ gens = <<>>
    /\ last_call = NoCall
    /\ budget = 0

VoteInit ==
    /\ ArenaIdle
    /\ v_agents \in {s \in InjectiveSeqs(Names) : Len(s) >= 2}
    /\ v_self \in {v_agents[i] : i \in 1..Len(v_agents)}
    /\ v_reply \in VoteReplies
    /\ v_result = NoResult
    /\ v_again = NoResult

GenerateVote ==
    /\ v_result = NoResult
    /\ v_result' = generate_vote(v_self, v_reply, v_agents)
    /\ UNCHANGED <<v_self, v_agents, v_reply, v_again>>
    /\ UNCHANGED arena_vars

VoteNext == GenerateVote

VoteSpec == VoteInit /\ [][VoteNext]_vars

(***************************************************************************)
(* generate_vote called twice by the same voter with the same response and *)
(* the same list other_agents.  The responses are those of VoteSpec that   *)
(* are made of fewer than MaxFrags fragments.                              *)
(***************************************************************************)
AgainReplies == {Success(t) : t \in TextsOf(MaxFrags - 1)} \cup {Failure}

VoteAgainInit ==
    /\ ArenaIdle
    /\ v_agents \in {s \in InjectiveSeqs(Names) : Len(s) >= 2}
    /\ v_self \in {v_agents[i] : i \in 1..Len(v_agents)}
    /\ v_reply \in AgainReplies
    /\ v_result = NoResult
    /\ v_again = NoResult

\* a second call that goes through the roster in an order of its own, as
\* the iteration over a set of names does
GenerateVoteAgainAnyOrder ==
    /\ v_result # NoResult
    /\ v_again = NoResult
    /\ \E roster \in InjectiveSeqs(Names) :
           /\ Len(roster) = Len(v_agents)
           /\ \A i \in 1..Len(roster) :
                  \E j \in 1..Len(v_agents) : roster[i] = v_agents[j]
           /\ v_again' = generate_vote(v_self, v_reply, roster)
    /\ UNCHANGED <<v_self, v_agents, v_reply, v_result>>
    /\ UNCHANGED arena_vars

\* the second call: same voter, same response, same other_agents
GenerateVoteAgain ==
    /\ v_result # NoResult
    /\ v_again = NoResult
    /\ v_again' = generate_vote(v_self, v_reply, v_agents)
    /\ UNCHANGED <<v_self, v_agents, v_reply, v_result>>
    /\ UNCHANGED arena_vars

VoteAgainNext ==
    \/ GenerateVote
    \/ GenerateVoteAgain

VoteAgainSpec == VoteAgainInit /\ [][VoteAgainNext]_vars

(***************************************************************************)
(* _tally_votes and _format_voting_results on their own: the generator is  *)
(* where _run_voting_round has returned and the votes are yielded, with    *)
(* any list of votes of at most MaxAgents voters.                          *)
(***************************************************************************)
\* the vote entries of the voters for the names voted for
VoteEntries(voters, voted) ==
    [i \in 1..Len(voters) |->
        [type |-> "vote", voter |-> voters[i], vote_for |-> voted[i],
         reason |-> ShortReason]]

TallyInit ==
    /\ \E n \in 0..MaxAgents :
           /\ agents \in [1..n -> Names]
           /\ \E voted \in [1..n -> Names \cup {None}] :
                  gens = <<[NewGen EXCEPT !.pc = "y_vote", !.k = n,
                                         !.agent_names = agents,
                                         !.votes = VoteEntries(agents, voted)]>>
    /\ rounds = 1
    /\ history = <<>>
    /\ is_running = TRUE
    /\ last_call = NoCall
    /\ budget = 0
    /\ VoteIdle

TallyNext == \E g \in Gens : VotingResults(g)

TallySpec == TallyInit /\ [][TallyNext]_vars

(***************************************************************************)
(* Helpers of the properties.                                              *)
(***************************************************************************)
Types(out) == [i \in 1..Len(out) |-> out[i].type]

Repeat(x, n) == [i \in 1..n |-> x]

IsPrefix(s, t) == Len(s) <= Len(t) /\ \A i \in 1..Len(s) : s[i] = t[i]

RECURSIVE RoundTypes(_, _)
RoundTypes(K, n) ==
    IF n = 0 THEN <<>>
    ELSE RoundTypes(K, n - 1) \o <<"round_start">> \o Repeat("argument", K)

CrossExamTypes(K) ==
    [i \in 1..(2 * K) |->
        IF i % 2 = 1 THEN "cross_exam_question" ELSE "cross_exam_response"]

\* the event types of a whole debate of K agents and N rounds
DebateTypes(K, N) ==
    <<"start">> \o RoundTypes(K, N)
        \o <<"cross_exam_start">> \o CrossExamTypes(K)
        \o <<"closing_start">> \o Repeat("closing", K)
        \o <<"voting_start">> \o Repeat("vote", K)
        \o <<"voting_results", "synthesis", "end">>

\* the entry types of the history once the closing statements are made
ClosedTypes(K, N) ==
    Repeat("argument", N * K) \o CrossExamTypes(K) \o Repeat("closing", K)

CrossExamKinds == {"cross_exam_question", "cross_exam_response"}

ErrorEvent ==
    [type |-> "error", message |-> "Need at least 2 agents for a debate"]

(***************************************************************************)
(* Properties of a debate run by one consumer (Spec).                      *)
(***************************************************************************)
\* C1: with K >= 2 agents and N rounds the events of a run come in the order
\* start; per round a round_start and K arguments; cross_exam_start and 2K
\* cross-examination events; closing_start and K closings; voting_start and K
\* votes; voting_results; synthesis; end.  What has been yielded is always a
\* prefix of that sequence, and the whole of it once end is yielded.
C1_PhaseOrder ==
    \A g \in 1..Len(gens) :
        Len(agents) >= 2 =>
            /\ IsPrefix(Types(gens[g].out), DebateTypes(Len(agents), rounds))
            /\ gens[g].pc \in {"y_end", "done"} =>
                   Types(gens[g].out) = DebateTypes(Len(agents), rounds)

C1_Witness ==
    \E g \in 1..Len(gens) :
        /\ gens[g].pc = "y_end"
        /\ Len(agents) = 3
        /\ rounds = 2

\* C2: a run begun with fewer than 2 agents yields the error event and
\* nothing else, leaves history and is_running as they were and makes no
\* generation call.
C2_TooFewAgentsOnlyError ==
    \A g \in 1..Len(gens) :
        (Len(agents) < 2 /\ gens[g].pc # "created") =>
            /\ gens[g].out = <<ErrorEvent>>
            /\ gens[g].pc \in {"y_error", "done"}
            /\ history = <<>>
            /\ is_running = FALSE
            /\ last_call = NoCall

C2_Witness ==
    \E g \in 1..Len(gens) :
        /\ gens[g].pc = "done"
        /\ Len(agents) = 1

\* C4 (as claimed): the question of the agent at index i is generated from a
\* history that holds the 2*i cross-examination entries made before it.
C4_QuestionerSeesEarlierExchanges ==
    \A g \in 1..Len(gens) :
        (gens[g].pc = "asked" /\ last_call.op = "ask") =>
            CountType(last_call.history, CrossExamKinds) = 2 * last_call.index

\* C5: the j-th speaker of round r is given the (r-1)*K + j arguments made
\* before, in order, and the j-th closing speaker all N*K arguments, the 2K
\* cross-examination entries and the j closings made before: in both cases
\* the whole history as it is when the call is made.
C5_SpeakersSeeWholeHistory ==
    \A g \in 1..Len(gens) :
        LET K == Len(agents)
            j == last_call.index
            h == last_call.history
        IN  /\ gens[g].pc = "y_argument" =>
                /\ last_call.op = "respond"
                /\ Len(h) = (gens[g].round_num - 1) * K + j
                /\ h = SubSeq(history, 1, Len(history) - 1)
                /\ \A m \in 1..Len(h) :
                       /\ h[m].type = "argument"
                       /\ h[m].round = ((m - 1) \div K) + 1
                       /\ h[m].agent = agents[((m - 1) % K) + 1]
            /\ gens[g].pc = "y_closing" =>
                /\ last_call.op = "close"
                /\ Len(h) = rounds * K + 2 * K + j
                /\ h = SubSeq(history, 1, Len(history) - 1)
                /\ IsPrefix(Types(h), ClosedTypes(K, rounds))

C5_Witness ==
    \E g \in 1..Len(gens) :
        /\ gens[g].pc = "y_closing"
        /\ gens[g].i = 3
        /\ rounds = 2
        /\ Len(last_call.history) = 14

\* C6: every vote call is given the history as it is after the last closing
\* statement: N*K arguments, 2K cross-examination entries, K closings, and no
\* vote.
C6_VotersSeeClosedHistory ==
    \A g \in 1..Len(gens) :
        (gens[g].pc = "voted") =>
            /\ last_call.op = "vote"
            /\ Types(last_call.history) = ClosedTypes(Len(agents), rounds)
            /\ last_call.history = history

C6_Witness ==
    \E g \in 1..Len(gens) :
        /\ gens[g].pc = "voted"
        /\ gens[g].i = 3
        /\ Len(gens[g].votes) = 3

\* C7 (as claimed): the vote_for of every vote event is the name of a
\* registered agent other than the voter.
C7_VoteForAnotherAgent ==
    \A g \in 1..Len(gens) :
        \A e \in 1..Len(gens[g].out) :
            gens[g].out[e].type = "vote" =>
                /\ gens[g].out[e].vote_for # None
                /\ \E a \in 1..Len(agents) : agents[a] = gens[g].out[e].vote_for
                /\ gens[g].out[e].vote_for # gens[g].out[e].voter

(***************************************************************************)
(* Properties of an arena used by several consumers (ReentrantSpec).       *)
(***************************************************************************)
ContentTypes ==
    {"argument", "cross_exam_question", "cross_exam_response", "closing"}

\* the entries a generator has yielded, in order
Entries(out) == SelectSeq(out, LAMBDA e : e.type \in ContentTypes)

\* C3 (as claimed): while the first run has yielded start and not yet end, a
\* run begun after it neither clears the history nor appends to it: the
\* history holds the entries the first run has yielded, and nothing else.
C3_SecondRunIgnored ==
    (Len(gens) >= 1 /\ Live(1) /\ gens[1].pc # "y_end") =>
        history = Entries(gens[1].out)

(***************************************************************************)
(* Properties of generate_vote (VoteSpec).                                 *)
(***************************************************************************)
\* generate_vote has returned for a response text
Voted == v_result # NoResult /\ v_reply.ok

VoteRoster == OtherNames(v_self, v_agents)

\* the names of the roster the text mentions, whatever the case
Mentioned(text, roster) ==
    {roster[i] : i \in {j \in 1..Len(roster) :
        Contains(Lower(text), Lower(NameChars[roster[j]]))}}

\* C8: for a non-empty roster, the vote that generate_vote returns is a name
\* of the roster and the reason has at least 10 characters, whatever the
\* response (the empty text and a failed call included); when the text
\* mentions no name of the roster the vote is the first name of the roster.
C8_VoteIsRosterName ==
    (v_result # NoResult /\ VoteRoster # <<>>) =>
        /\ \E i \in 1..Len(VoteRoster) : v_result.vote = VoteRoster[i]
        /\ Len(v_result.reason) >= MinReasonLen
        /\ (v_reply.ok /\ Mentioned(v_reply.text, VoteRoster) = {}) =>
               v_result.vote = VoteRoster[1]

C8_Witness ==
    /\ Voted
    /\ v_reply.text # <<>>
    /\ Mentioned(v_reply.text, VoteRoster) = {}
    /\ v_result.vote = VoteRoster[1]
    /\ Len(v_result.reason) >= MinReasonLen

\* the end of the line that begins at position p
LineEnd(s, p) ==
    LET ends == {e \in p..(Len(s) + 1) : e = Len(s) + 1 \/ s[e] = "\n"}
    IN  CHOOSE e \in ends : \A f \in ends : e <= f

\* the first VOTE: marker of the text is followed, on its line, by the name
MarkerLine(text, name) ==
    LET low  == Lower(text)
        hits == {p \in 1..Len(text) : MatchAt(low, p, VoteMarker)}
    IN  /\ hits # {}
        /\ LET p == CHOOSE h \in hits : \A k \in hits : h <= k
               q == SkipSpace(text, p + 5)
           IN  Lower(SubSeq(text, q, LineEnd(text, q) - 1))
                   = Lower(NameChars[name])

\* C9 (as claimed): when the text holds a line VOTE: <name> and the name is,
\* whatever the case, a name of the roster, the vote is that name, whichever
\* other names the text mentions and however many words the name has.
C9_MarkerWins ==
    Voted =>
        \A i \in 1..Len(VoteRoster) :
            MarkerLine(Strip(v_reply.text), VoteRoster[i]) =>
                v_result.vote = VoteRoster[i]

\* the text that the REASON: marker captures, up to a blank line or the end,
\* with its runs of whitespace collapsed and its asterisks removed
Captured(text) == Strip(RemoveStars(MarkerReason(Strip(text))))

\* C10 (as claimed): when a REASON: marker captures at least 10 characters,
\* the reason returned is the captured text, whichever rule chose the name,
\* the default of the roster included.
C10_ReasonIndependent ==
    (Voted /\ Len(Captured(v_reply.text)) >= MinReasonLen) =>
        v_result.reason = Captured(v_reply.text)

\* C10 (amended): when a REASON: marker captures at least 10 characters and
\* the text mentions a name of the roster, the reason returned is the
\* captured text, whichever rule found the name; when the text mentions no
\* name of the roster, the vote is the default and the reason is the fixed
\* sentence of the final fallback, whatever the marker captures.
C10_ReasonWhenNameFound ==
    (Voted /\ VoteRoster # <<>>) =>
        /\ (/\ Len(Captured(v_reply.text)) >= MinReasonLen
            /\ Mentioned(v_reply.text, VoteRoster) # {}) =>
               v_result.reason = Captured(v_reply.text)
        /\ Mentioned(v_reply.text, VoteRoster) = {} =>
               v_result.reason = FallbackReason

\* a name found without a VOTE: marker, and a reason captured by REASON:
C10_Witness ==
    /\ Voted
    /\ ~Contains(Lower(v_reply.text), VoteMarker)
    /\ Mentioned(v_reply.text, VoteRoster) # {}
    /\ Len(Captured(v_reply.text)) >= MinReasonLen
    /\ v_result.reason = Captured(v_reply.text)

\* C11: when the generation call of generate_vote fails and the roster is
\* not empty, generate_vote returns a record: the voter is the caller, the
\* vote is the first name of the roster, which is not the voter, and the
\* reason is not empty.
C11_FailedVoteIsDefault ==
    (v_result # NoResult /\ ~v_reply.ok /\ VoteRoster # <<>>) =>
        /\ v_result.voter = v_self
        /\ v_result.vote = VoteRoster[1]
        /\ v_result.vote # v_self
        /\ v_result.reason # <<>>

C11_Witness ==
    /\ v_result # NoResult
    /\ ~v_reply.ok
    /\ Len(v_agents) = 3
    /\ v_self = v_agents[1]
    /\ v_result.vote = v_agents[2]

(***************************************************************************)
(* Properties of a debate with failing generation calls (FaultSpec).       *)
(***************************************************************************)
\* the marker of a placeholder
ErrorMarker ==
    <<"[", "E", "r", "r", "o", "r", " ", "g", "e", "n", "e", "r", "a", "t",
      "i", "n", "g">>

\* a placeholder: it begins with the marker and embeds the reason of the
\* failure
Placeholder(message) ==
    StartsWith(message, ErrorMarker) /\ Contains(message, ErrorText)

\* the number of entries of a list whose message is a placeholder
Placeholders(h) ==
    Cardinality({i \in 1..Len(h) :
        h[i].type # "vote" /\ Placeholder(h[i].message)})

\* the number of votes of a list that come from a failed call
FailedVotes(votes) ==
    Cardinality({i \in 1..Len(votes) :
        StartsWith(votes[i].reason, ErrorReasonPrefix)})

\* the number of calls that have failed
FailedCalls == MaxFailures - budget

\* C12: whichever generation calls fail, what a run of K >= 2 agents has
\* yielded is a prefix of the event types of a run in which none fails; at
\* the end event it is the whole of them, total_arguments is the total of a
\* run without failures, and every failed call has left one placeholder (in
\* the history or in the synthesis) or one default vote, so that a single
\* failed call of round 2 leaves exactly one placeholder entry.
C12_FailuresContained ==
    \A g \in 1..Len(gens) :
        Len(agents) >= 2 =>
            LET K   == Len(agents)
                out == gens[g].out
            IN  /\ IsPrefix(Types(out), DebateTypes(K, rounds))
                /\ gens[g].pc \in {"y_end", "done"} =>
                    /\ Types(out) = DebateTypes(K, rounds)
                    /\ out[Len(out)].total_arguments = (rounds + 3) * K
                    /\ Len(history) = (rounds + 3) * K
                    /\ Placeholders(history)
                         + FailedVotes(gens[g].votes)
                         + Placeholders(SelectSeq(out,
                               LAMBDA e : e.type = "synthesis"))
                         = FailedCalls
                    /\ (/\ FailedCalls = 1
                        /\ \E i \in 1..Len(history) :
                               /\ history[i].type = "argument"
                               /\ history[i].round = 2
                               /\ Placeholder(history[i].message)) =>
                           Placeholders(history) = 1

C12_Witness ==
    /\ gens # <<>>
    /\ gens[1].pc = "y_end"
    /\ Len(agents) = 3
    /\ rounds = 2
    /\ FailedCalls = 1
    /\ Placeholders(history) = 1
    /\ \E i \in 1..Len(history) :
           /\ history[i].type = "argument"
           /\ history[i].round = 2
           /\ Placeholder(history[i].message)

\* the calls of the text-producing operations of Agent
TextOps == {"respond", "ask", "answer", "close"}

\* the entry that the call of a step has produced: the last of the history
\* for an argument or a closing, the last of the list of
\* _run_cross_examination for a question or a response
Produced(call, h, g) ==
    IF call.op \in {"respond", "close"} THEN h[Len(h)]
    ELSE g[call.gen].cross_exam_entries[Len(g[call.gen].cross_exam_entries)]

\* C13: a step in which the generation call of generate_response,
\* generate_cross_examination, generate_cross_exam_response or
\* generate_closing_statement fails still produces its entry, and the message
\* of the entry begins with "[Error generating" and embeds the reason of the
\* failure.
C13_FailedTextIsPlaceholder ==
    [][(budget' < budget /\ last_call'.op \in TextOps) =>
           Placeholder(Produced(last_call', history', gens').message)]_vars

C13_Witness ==
    /\ \E i \in 1..Len(history) :
           /\ history[i].type = "cross_exam_response"
           /\ Placeholder(history[i].message)
    /\ FailedCalls = 1

(***************************************************************************)
(* Properties of the history and of the events of a run (Spec).            *)
(***************************************************************************)
\* the calls that produce a turn
TurnOps == {"respond", "ask", "answer", "close", "vote"}

\* C14 (as claimed): when a generation call begins after a respond, ask,
\* answer, close or vote call, the history it is given is one entry longer
\* than the history that call was given.
C14_EveryTurnGrowsHistory ==
    [][(last_call' # last_call /\ last_call.op \in TurnOps) =>
           Len(last_call'.history) = Len(last_call.history) + 1]_vars

\* C15 (as claimed): when the end event is yielded the history holds one
\* vote entry for each of the K agents.
C15_VotesInHistory ==
    \A g \in 1..Len(gens) :
        (gens[g].pc = "y_end" /\ Len(agents) >= 2) =>
            CountType(history, {"vote"}) = Len(agents)

\* the entries that a run has produced and not yet yielded
Unyielded(gen) ==
    IF gen.pc \in {"asked", "answered"} THEN gen.cross_exam_entries
    ELSE IF gen.pc = "y_cross_entry"
    THEN SubSeq(gen.cross_exam_entries, gen.k + 1,
                Len(gen.cross_exam_entries))
    ELSE IF gen.pc = "voted" THEN gen.votes
    ELSE IF gen.pc = "y_vote"
    THEN SubSeq(gen.votes, gen.k + 1, Len(gen.votes))
    ELSE <<>>

\* C16 (as claimed): every entry is yielded before the generation call of a
\* later entry begins: once a call has returned, the only entry that is
\* produced and not yet yielded is the entry of that call.
C16_YieldedWhenProduced ==
    \A g \in 1..Len(gens) : Len(Unyielded(gens[g])) <= 1

\* the names of the list are different from each other
Distinct(names) ==
    \A a, b \in 1..Len(names) : names[a] = names[b] => a = b

\* the entries of the cross-examination in a history of K agents, N rounds
CrossExamOf(h, K, N) == SubSeq(h, N * K + 1, N * K + 2 * K)

\* C17: the cross-examination of K >= 2 agents makes K pairs: the question
\* of pair i is asked by the agent at index i to the agent at index
\* (i+1) mod K, which is another agent, and is followed at once by the
\* response of that agent; every agent asks once and is asked once.
C17_CrossExamRotation ==
    \A g \in 1..Len(gens) :
        gens[g].pc = "y_closing_start" =>
            LET K   == Len(agents)
                sec == CrossExamOf(history, K, rounds)
            IN  /\ Len(history) = rounds * K + 2 * K
                /\ \A i \in 0..(K - 1) :
                    LET q == sec[2 * i + 1]
                        r == sec[2 * i + 2]
                    IN  /\ q.type = "cross_exam_question"
                        /\ q.questioner = agents[i + 1]
                        /\ q.target = agents[((i + 1) % K) + 1]
                        /\ ((i + 1) % K) # i
                        /\ r.type = "cross_exam_response"
                        /\ r.responder = q.target
                        /\ r.questioner = q.questioner
                /\ Distinct(agents) =>
                    \A a \in 1..K :
                        /\ Cardinality({i \in 0..(K - 1) :
                               sec[2 * i + 1].questioner = agents[a]}) = 1
                        /\ Cardinality({i \in 0..(K - 1) :
                               sec[2 * i + 1].target = agents[a]}) = 1
                        /\ \A i \in 0..(K - 1) :
                               sec[2 * i + 1].questioner
                                   # sec[2 * i + 1].target

C17_Witness ==
    \E g \in 1..Len(gens) :
        /\ gens[g].pc = "y_closing_start"
        /\ Len(agents) = 3
        /\ Distinct(agents)
        /\ history[Len(history)].responder = agents[1]

(***************************************************************************)
(* Properties of the tally (TallySpec).                                    *)
(***************************************************************************)
\* the number of votes of the list that go to the name
VotesFor(votes, n) ==
    Cardinality({i \in 1..Len(votes) : votes[i].vote_for = n})

\* C18: the tally of a list of votes maps each name with at least one vote
\* to the number of its votes and holds no other name, and the winners are
\* the names whose number of votes is the largest: one name, or all the
\* names of a tie.
C18_TallyCounts ==
    \A g \in 1..Len(gens) :
        gens[g].pc = "y_voting_results" =>
            LET votes == gens[g].votes
                e     == gens[g].out[Len(gens[g].out)]
            IN  /\ e.type = "voting_results"
                /\ DOMAIN e.tally = {n \in Names : VotesFor(votes, n) > 0}
                /\ \A n \in DOMAIN e.tally : e.tally[n] = VotesFor(votes, n)
                /\ e.winners =
                       {n \in Names :
                           /\ VotesFor(votes, n) > 0
                           /\ \A m \in Names :
                                  VotesFor(votes, m) <= VotesFor(votes, n)}

\* two votes for one name and one vote for another: one winner
C18_Witness ==
    \E g \in 1..Len(gens) :
        /\ gens[g].pc = "y_voting_results"
        /\ Len(gens[g].votes) = 3
        /\ VotesFor(gens[g].votes, "Mill") = 2
        /\ VotesFor(gens[g].votes, "Kant") = 1
        /\ gens[g].out[Len(gens[g].out)].winners = {"Mill"}

(***************************************************************************)
(* Properties of the events and of the history of a run (Spec).            *)
(***************************************************************************)
\* C19: a run of K >= 2 agents and N rounds that has yielded its end event
\* has yielded N*K arguments, K questions, K responses, K closings, K votes,
\* one voting_results, one synthesis and one end event, and the
\* total_arguments of the end event is the number of entries of the history.
C19_EventCounts ==
    \A g \in 1..Len(gens) :
        (gens[g].pc \in {"y_end", "done"} /\ Len(agents) >= 2) =>
            LET K   == Len(agents)
                out == gens[g].out
            IN  /\ CountType(out, {"argument"}) = rounds * K
                /\ CountType(out, {"cross_exam_question"}) = K
                /\ CountType(out, {"cross_exam_response"}) = K
                /\ CountType(out, {"closing"}) = K
                /\ CountType(out, {"vote"}) = K
                /\ CountType(out, {"voting_results"}) = 1
                /\ CountType(out, {"synthesis"}) = 1
                /\ CountType(out, {"end"}) = 1
                /\ out[Len(out)].type = "end"
                /\ out[Len(out)].total_arguments = Len(history)

C19_Witness ==
    \E g \in 1..Len(gens) :
        /\ gens[g].pc = "y_end"
        /\ Len(agents) = 3
        /\ rounds = 2
        /\ CountType(gens[g].out, {"argument"}) = 6
        /\ gens[g].out[Len(gens[g].out)].total_arguments = 15

\* C20 (as claimed): the list given to a call is a snapshot: whatever is
\* appended to the history afterwards, the list holds what it held when the
\* call was made.
C20_HistoryIsSnapshot == debate_history = last_call.history

(***************************************************************************)
(* Properties of the transcript and of the events of one run.              *)
(***************************************************************************)
\* a generator has begun: its first event is yielded
Begun == \E g \in 1..Len(gens) : gens[g].pc # "created"

\* C21: within one run the transcript is append-only.  Once the run has
\* begun, every step leaves the history as it was or puts entries after the
\* ones it holds: the history before the step is a prefix of the history
\* after it, so no entry is removed, moved or replaced.
C21_AppendOnly ==
    [][Begun => IsPrefix(history, history')]_vars

\* the run has reached its end event with a history that grew entry by entry
C21_Witness ==
    \E g \in 1..Len(gens) :
        /\ gens[g].pc = "y_end"
        /\ Len(history) >= 2 * Len(agents)
        /\ Len(agents) >= 2

\* C22: the names of the participants of an arena that can start a run are
\* unique: no two registered agents have the same name.
C22_NamesUnique ==
    Len(agents) >= 2 => Distinct(agents)

\* the positions of the synthesis events among the events yielded
SynthesisAt(out) == {i \in 1..Len(out) : out[i].type = "synthesis"}

\* the generator is past its synthesis event
Synthesised(gen) == gen.pc \in {"y_synthesis", "y_end", "done"}

\* what a run of K >= 2 agents has yielded holds at most one synthesis
\* event, and exactly one once the synthesis is reached; it comes right
\* after voting_results, its agent is Moderator, the end event is the one
\* after it, and no entry of the history is a synthesis or a Moderator's
SynthesisOnce ==
    \A g \in 1..Len(gens) :
        Len(agents) >= 2 =>
            LET out == gens[g].out
            IN  /\ Cardinality(SynthesisAt(out)) =
                       (IF Synthesised(gens[g]) THEN 1 ELSE 0)
                /\ \A i \in SynthesisAt(out) :
                       /\ i > 1 /\ out[i - 1].type = "voting_results"
                       /\ out[i].agent = "Moderator"
                       /\ i < Len(out) => /\ i + 1 = Len(out)
                                          /\ out[i + 1].type = "end"
                /\ gens[g].pc \in {"y_end", "done"} =>
                       out[Len(out)].type = "end"
                /\ \A j \in 1..Len(history) :
                       /\ history[j].type # "synthesis"
                       /\ history[j].type \in {"argument", "closing"} =>
                              history[j].agent # "Moderator"

\* the step that makes the synthesis call yields the synthesis event and
\* leaves the history alone; when the call fails the message of the event
\* begins with the marker of a failed synthesis
SynthesisStep ==
    \A g \in 1..Len(gens) :
        (gens[g].pc = "y_voting_results" /\ gens'[g] # gens[g]) =>
            LET out == gens'[g].out
            IN  /\ Len(out) = Len(gens[g].out) + 1
                /\ out[Len(out)].type = "synthesis"
                /\ history' = history
                /\ budget' < budget =>
                       /\ StartsWith(out[Len(out)].message, ErrSynthesis)
                       /\ Contains(out[Len(out)].message, ErrorText)

\* the step after the synthesis event yields the end event
EndFollows ==
    \A g \in 1..Len(gens) :
        (gens[g].pc = "y_synthesis" /\ gens'[g] # gens[g]) =>
            /\ Len(gens'[g].out) = Len(gens[g].out) + 1
            /\ gens'[g].out[Len(gens'[g].out)].type = "end"

\* C23: every run with K >= 2 agents yields exactly one synthesis event,
\* after voting_results and before end, of the agent Moderator, and the
\* synthesis is not appended to the history; when the synthesis call fails
\* the event is yielded all the same, its message begins with
\* "[Error generating synthesis:", and the next pull yields the end event.
C23_SynthesisOnceAndContained ==
    /\ []SynthesisOnce
    /\ [][SynthesisStep /\ EndFollows]_vars

\* a run of two or more agents has ended after a synthesis call that failed
C23_Witness ==
    \E g \in 1..Len(gens) :
        /\ Len(agents) >= 2
        /\ gens[g].pc = "y_end"
        /\ \E i \in SynthesisAt(gens[g].out) :
               StartsWith(gens[g].out[i].message, ErrSynthesis)

\* a generation call has been made for every entry of the cross-examination
\* and only some of the entries are yielded
MidBatch(gen) ==
    /\ Len(gen.cross_exam_entries) > 0
    /\ CountType(gen.out, CrossExamKinds) \in
           1..(Len(gen.cross_exam_entries) - 1)

\* C24: when the consumer stops pulling after an event, no further work is
\* done: in the step that drops the generator and in every step after it,
\* no generation call is made and the history stays as it was when the last
\* event pulled was yielded.
C24_NoWorkAfterStop ==
    [][\A g \in 1..Len(gens) :
           gens'[g].pc = "closed" =>
               /\ history' = history
               /\ last_call' = last_call
               /\ gens'[g].out = gens[g].out]_vars

\* the consumer has stopped in the middle of the cross-examination entries
C24_Witness ==
    \E g \in 1..Len(gens) :
        /\ gens[g].pc = "closed"
        /\ MidBatch(gens[g])
        /\ history = Entries(gens[g].out)

\* the agent an event is attributed to
Speaker(e) ==
    IF e.type \in {"argument", "closing"} THEN e.agent
    ELSE IF e.type = "cross_exam_question" THEN e.questioner
    ELSE IF e.type = "cross_exam_response" THEN e.responder
    ELSE e.voter

TurnTypes == ContentTypes \cup {"vote"}

\* C25 (as claimed): the participants of a run are the ones registered when
\* it began, whatever is added to the arena between its pulls: every
\* speaker, questioner, responder and voter of the run is one of the agents
\* of its start event, and the events it yields are those of a debate of
\* that many agents.
C25_ParticipantsFixed ==
    \A g \in 1..Len(gens) :
        Len(gens[g].out) > 0 =>
            LET out   == gens[g].out
                first == out[1].agents
            IN  /\ IsPrefix(Types(out), DebateTypes(Len(first), rounds))
                /\ \A i \in 1..Len(out) :
                       out[i].type \in TurnTypes =>
                           \E j \in 1..Len(first) : Speaker(out[i]) = first[j]

EventCount(K, N) == 7 + N + N * K + 4 * K

\* what a generator has done: the events it has yielded, the entries and
\* votes it has collected inside the cross-examination and the voting round,
\* and its return
Work(gen) ==
    Len(gen.out) + Len(gen.cross_exam_entries) + Len(gen.votes)
        + (IF gen.pc = "done" THEN 1 ELSE 0)

\* a run of K >= 2 agents has yielded fewer than EventCount events before
\* its end event and exactly EventCount with it, the end event is the last
\* one and the only one, and the work of the run is bounded
FiniteRun ==
    \A g \in 1..Len(gens) :
        Len(agents) >= 2 =>
            LET out == gens[g].out
                E   == EventCount(Len(agents), rounds)
            IN  /\ IF gens[g].pc \in {"y_end", "done"}
                   THEN Len(out) = E /\ out[E].type = "end"
                   ELSE Len(out) < E
                /\ \A i \in 1..Len(out) : out[i].type = "end" => i = E
                /\ Work(gens[g]) <= E + 3 * Len(agents) + 1

\* every step of a generator adds one to its work, and a generator that has
\* yielded its end event yields nothing more
Progress ==
    \A g \in 1..Len(gens) :
        gens'[g] # gens[g] =>
            /\ Work(gens'[g]) = Work(gens[g]) + 1
            /\ gens[g].pc = "y_end" =>
                   gens'[g].pc = "done" /\ gens'[g].out = gens[g].out

\* C27: a run with K >= 2 agents and N rounds, whose generation calls return
\* or fail, is a finite sequence of exactly 7 + N + N*K + 4K events that
\* ends with the end event: every pull moves the run one step on towards a
\* bound, the end event is the last of exactly that many events, and the
\* pull after it yields no event.
C27_FiniteEventSequence ==
    /\ []FiniteRun
    /\ [][Progress]_vars

\* a run of three agents and two rounds, one of whose calls failed, has
\* returned after 27 events
C27_Witness ==
    \E g \in 1..Len(gens) :
        /\ gens[g].pc = "done"
        /\ Len(agents) = 3 /\ rounds = 2
        /\ Len(gens[g].out) = 27
        /\ budget < MaxFailures

\* the names of a list
NameSet(names) == {names[i] : i \in 1..Len(names)}

\* the last generation call is a respond call of round round_num, and the
\* generator has not moved on since
Responded(g) ==
    /\ last_call.op = "respond"
    /\ last_call.gen = g
    /\ gens[g].pc = "y_argument"
    /\ gens[g].i = last_call.index + 1

\* C28: in a run of K >= 2 agents with names of their own, every respond
\* call of a round after the first computes from the history it is given a
\* list of addressable participants that is not empty, holds no name twice,
\* does not hold the speaker, and holds the names of all other agents, in
\* whatever order the set of names is listed.
C28_AddressableAreTheOthers ==
    \A g \in 1..Len(gens) :
        (Responded(g) /\ gens[g].round_num > 1
            /\ Len(agents) >= 2 /\ Distinct(agents)) =>
            \A participants \in
                    Listings(_extract_participants(last_call.history)) :
                LET self   == last_call.agent
                    others == other_participants(self, participants)
                IN  /\ others # <<>>
                    /\ Distinct(others)
                    /\ self \notin NameSet(others)
                    /\ NameSet(others) = NameSet(agents) \ {self}

\* the second of three agents responds in the second round
C28_Witness ==
    \E g \in 1..Len(gens) :
        /\ Responded(g)
        /\ gens[g].round_num = 2
        /\ Len(agents) = 3
        /\ last_call.agent = agents[2]
        /\ Cardinality(_extract_participants(last_call.history)) = 3

\* the token after the VOTE: marker is, whatever the case, a name of the
\* roster
MarkerNamesRoster(text, roster) ==
    \E i \in 1..Len(roster) :
        /\ VoteMatch(Strip(text)) # <<>>
        /\ Lower(VoteMatch(Strip(text))) = Lower(NameChars[roster[i]])

\* the names of the roster that the text begins with or that follow the
\* phrase "vote for", whatever the case
Leading(text, roster) ==
    LET low == Lower(Strip(text))
    IN  {roster[i] : i \in {j \in 1..Len(roster) :
            \/ StartsWith(low, Lower(NameChars[roster[j]]))
            \/ Contains(low, VoteFor \o Lower(NameChars[roster[j]]))}}

\* the name of S that comes first in the roster
FirstInRoster(roster, S) ==
    roster[CHOOSE i \in 1..Len(roster) :
               /\ roster[i] \in S
               /\ \A j \in 1..(i - 1) : roster[j] \notin S]

\* C29: when no VOTE: marker names a roster name, the later rules decide in
\* their order.  If the text begins with a roster name or holds "vote for"
\* followed by one, the vote is such a name (the first of them in the
\* roster), whichever other roster names the text mentions; only when there
\* is no such name is the vote the first name of the roster that appears
\* anywhere in the text.
C29_LeadingBeforeAnywhere ==
    []((Voted /\ ~MarkerNamesRoster(v_reply.text, VoteRoster)) =>
        LET leading   == Leading(v_reply.text, VoteRoster)
            mentioned == Mentioned(v_reply.text, VoteRoster)
        IN  /\ leading # {} =>
                   v_result.vote = FirstInRoster(VoteRoster, leading)
            /\ (leading = {} /\ mentioned # {}) =>
                   v_result.vote = FirstInRoster(VoteRoster, mentioned))

\* the text holds "vote for" followed by the second name of the roster and
\* mentions the first name elsewhere: the vote is the second name
C29_Witness ==
    /\ Voted
    /\ ~MarkerNamesRoster(v_reply.text, VoteRoster)
    /\ Len(VoteRoster) >= 2
    /\ Leading(v_reply.text, VoteRoster) = {VoteRoster[2]}
    /\ VoteRoster[1] \in Mentioned(v_reply.text, VoteRoster)
    /\ v_result.vote = VoteRoster[2]

\* the events of a type among the events yielded, in order
OfType(out, type) == SelectSeq(out, LAMBDA e : e.type = type)

\* C30: the agents take their turns in the order in which they were
\* registered, one turn each: in a run of K >= 2 agents the i-th argument of
\* every round, the i-th closing statement and the i-th vote are those of the
\* i-th agent, and a finished run holds K arguments per round, K closing
\* statements and K votes.
C30_RegistrationOrder ==
    \A g \in 1..Len(gens) :
        Len(agents) >= 2 =>
            LET K         == Len(agents)
                arguments == OfType(gens[g].out, "argument")
                closings  == OfType(gens[g].out, "closing")
                cast      == OfType(gens[g].out, "vote")
            IN  /\ \A j \in 1..Len(arguments) :
                       /\ arguments[j].agent = agents[((j - 1) % K) + 1]
                       /\ arguments[j].round = ((j - 1) \div K) + 1
                /\ Len(closings) <= K
                /\ \A j \in 1..Len(closings) : closings[j].agent = agents[j]
                /\ Len(cast) <= K
                /\ \A j \in 1..Len(cast) : cast[j].voter = agents[j]
                /\ gens[g].pc \in {"y_end", "done"} =>
                       /\ Len(arguments) = rounds * K
                       /\ Len(closings) = K
                       /\ Len(cast) = K

\* a run of three agents and two rounds has yielded its end event
C30_Witness ==
    \E g \in 1..Len(gens) :
        /\ gens[g].pc = "y_end"
        /\ Len(agents) = 3 /\ rounds = 2
        /\ Len(OfType(gens[g].out, "vote")) = 3
        /\ OfType(gens[g].out, "closing")[3].agent = agents[3]

(***************************************************************************)
(* Properties of the generation calls of a run (FaultSpec).                *)
(***************************************************************************)
\* the turns a generator has taken: the arguments, closing statements and
\* the synthesis it has yielded, and the questions, answers and votes it has
\* collected inside the cross-examination and the voting round
Turns(gen) ==
    CountType(gen.out, {"argument", "closing", "synthesis"})
        + Len(gen.cross_exam_entries) + Len(gen.votes)

\* the number of generation calls of a run of K agents and N rounds
CallCount(K, N) == N * K + 4 * K + 1

\* a run of K >= 2 agents that has yielded its synthesis has taken
\* CallCount turns, and never more of its calls have failed than it has
\* taken turns
CallsOfRun ==
    \A g \in 1..Len(gens) :
        Len(agents) >= 2 =>
            /\ Turns(gens[g]) <= CallCount(Len(agents), rounds)
            /\ gens[g].pc \in {"y_synthesis", "y_end", "done"} =>
                   Turns(gens[g]) = CallCount(Len(agents), rounds)
            /\ FailedCalls <= Turns(gens[g])

\* a step makes a generation call exactly when it takes a turn, and it
\* takes one turn at most: the call of a turn is made once, whether it
\* returns or fails, and no step makes two calls
OneCallPerTurn ==
    \A g \in 1..Len(gens) :
        LET called == last_call' # last_call \/ budget' # budget
            more   == Turns(gens'[g]) - Turns(gens[g])
        IN  /\ more \in {0, 1}
            /\ budget - budget' \in {0, 1}
            /\ called <=> more = 1

\* C31: a generation call is never tried again.  Every turn makes one
\* generation call, whether the call returns or fails, so a run with K >= 2
\* agents and N rounds makes N*K + 4K + 1 calls, one after the other.
C31_NoRetry ==
    /\ []CallsOfRun
    /\ [][OneCallPerTurn]_vars

\* a run of three agents and two rounds, one of whose calls failed, has
\* yielded its end event after 19 turns
C31_Witness ==
    \E g \in 1..Len(gens) :
        /\ gens[g].pc = "y_end"
        /\ Len(agents) = 3 /\ rounds = 2
        /\ Turns(gens[g]) = 19
        /\ FailedCalls = 1

(***************************************************************************)
(* Properties of the flag and of runs made one after the other.            *)
(***************************************************************************)
\* the positions of a generator from its start event up to, and without,
\* its end event
Running(gen) == gen.pc \notin {"created", "y_error", "y_end", "done", "closed"}

\* C32 (as claimed): is_running is False before any run, True in every state
\* from the start event of a run to its end event, and False in every state
\* in which the consumer has received the end event, whether or not it pulls
\* again after it.
C32_FlagTracksRun ==
    /\ gens = <<>> => is_running = FALSE
    /\ \A g \in 1..Len(gens) :
           /\ gens[g].pc = "created" => is_running = FALSE
           /\ Running(gens[g]) => is_running = TRUE
           /\ gens[g].pc \in {"y_end", "done"} => is_running = FALSE

\* the total_arguments of the end event of a generator that has yielded it
TotalReported(gen) == gen.out[Len(gen.out)].total_arguments

\* C33: a run started on an arena after an earlier run has completed begins
\* from an empty transcript.  At its start event the history is empty; as
\* long as it is the latest run the history holds the entries it has yielded
\* itself and no entry of an earlier run; and its end event reports the
\* total_arguments that the first run reported.
C33_RerunStartsEmpty ==
    \A g \in 2..Len(gens) :
        (gens[g].pc # "created"
            /\ \A h \in (g + 1)..Len(gens) : gens[h].pc = "created") =>
            /\ gens[g].pc = "y_start" => history = <<>>
            /\ history = Entries(gens[g].out)
            /\ gens[g].pc \in {"y_end", "done"} =>
                   /\ TotalReported(gens[g]) = TotalReported(gens[1])
                   /\ TotalReported(gens[g]) = Len(history)

\* the second run of three agents has yielded its end event, after a first
\* run that left entries in the transcript
C33_Witness ==
    /\ Len(gens) >= 2
    /\ gens[2].pc = "y_end"
    /\ Len(agents) = 3
    /\ TotalReported(gens[1]) = 3 * rounds + 9
    /\ TotalReported(gens[2]) = TotalReported(gens[1])

====
